---- MODULE Spec2Model ----
(***************************************************************************)
(* Model of scripts/generate_trace_matrix.py: the requirements trace       *)
(* matrix generator.  The program is one linear pipeline                   *)
(*   dependency check -> parse requirements -> scan tests -> render text   *)
(*   -> render hypertext                                                   *)
(* Text is modelled at character level: a Python str is a sequence of      *)
(* one-character strings, and every regular expression of the source is    *)
(* compiled by hand into an operator over such sequences.                  *)
(***************************************************************************)
EXTENDS Integers, Sequences, FiniteSets, TLC

(***************************************************************************)
(* Bounds of the model.                                                    *)
(***************************************************************************)
\* number of lines of the requirements document that are read
MaxDocLines == 3
\* number of lines read over all scanned source files
MaxScanLines == 2

(***************************************************************************)
(* Characters and character classes of Python's re module (ASCII part).    *)
(***************************************************************************)
\* the printable ASCII characters 32..95 and 97..126, in code point order
ASCII_LOW == <<" ", "!", "\"", "#", "$", "%", "&", "'", "(", ")", "*", "+", ",", "-", ".", "/", "0", "1", "2", "3", "4", "5", "6", "7", "8", "9", ":", ";", "<", "=", ">", "?", "@", "A", "B", "C", "D", "E", "F", "G", "H", "I", "J", "K", "L", "M", "N", "O", "P", "Q", "R", "S", "T", "U", "V", "W", "X", "Y", "Z", "[", "\\", "]", "^", "_">>
ASCII_HIGH == <<"a", "b", "c", "d", "e", "f", "g", "h", "i", "j", "k", "l", "m", "n", "o", "p", "q", "r", "s", "t", "u", "v", "w", "x", "y", "z", "{", "|", "}", "~">>

\* ord(c); the tab (9) is the only character used outside the two tables
CharCode(c) ==
    IF \E i \in 1..Len(ASCII_LOW) : ASCII_LOW[i] = c
    THEN 31 + (CHOOSE i \in 1..Len(ASCII_LOW) : ASCII_LOW[i] = c)
    ELSE IF \E i \in 1..Len(ASCII_HIGH) : ASCII_HIGH[i] = c
    THEN 96 + (CHOOSE i \in 1..Len(ASCII_HIGH) : ASCII_HIGH[i] = c)
    ELSE 9

UpperChars == {"A","B","C","D","E","F","G","H","I","J","K","L","M",
               "N","O","P","Q","R","S","T","U","V","W","X","Y","Z"}
LowerChars == {"a","b","c","d","e","f","g","h","i","j","k","l","m",
               "n","o","p","q","r","s","t","u","v","w","x","y","z"}
DigitChars == {"0","1","2","3","4","5","6","7","8","9"}

\* \s
IsSpace(c) == c \in {" ", "\t"}
\* [A-Z]
IsUpper(c) == c \in UpperChars
\* [\d.]
IsDigitDot(c) == c \in DigitChars \cup {"."}
\* \w
IsWord(c) == c \in UpperChars \cup LowerChars \cup DigitChars \cup {"_"}

\* s[i], or the empty string (no character) outside the string
At(s, i) == IF i \in 1..Len(s) THEN s[i] ELSE ""

\* s[i-1:], the suffix of s that starts at position i
From(s, i) == SubSeq(s, i, Len(s))

\* the literal lit occurs in s at position i
MatchesAt(s, i, lit) ==
    /\ i >= 1
    /\ i + Len(lit) - 1 <= Len(s)
    /\ SubSeq(s, i, i + Len(lit) - 1) = lit

\* greedy \s* from position i: the first position that is not whitespace
RECURSIVE SkipSpaces(_, _)
SkipSpaces(s, i) == IF IsSpace(At(s, i)) THEN SkipSpaces(s, i + 1) ELSE i

\* greedy [A-Z]* from position i
RECURSIVE SkipUpper(_, _)
SkipUpper(s, i) == IF IsUpper(At(s, i)) THEN SkipUpper(s, i + 1) ELSE i

\* greedy [\d.]* from position i
RECURSIVE SkipDigitDot(_, _)
SkipDigitDot(s, i) == IF IsDigitDot(At(s, i)) THEN SkipDigitDot(s, i + 1) ELSE i

\* greedy \w* from position i
RECURSIVE SkipWord(_, _)
SkipWord(s, i) == IF IsWord(At(s, i)) THEN SkipWord(s, i + 1) ELSE i

\* greedy [^-]* from position i
RECURSIVE SkipNonHyphen(_, _)
SkipNonHyphen(s, i) ==
    IF i <= Len(s) /\ s[i] # "-" THEN SkipNonHyphen(s, i + 1) ELSE i

\* [A-Z]+-[\d.]+ at position i: the position after the identifier, 0 if none
IdEnd(s, i) ==
    LET d == SkipUpper(s, i)
        f == SkipDigitDot(s, d + 1)
    IN  IF d > i /\ At(s, d) = "-" /\ f > d + 1 THEN f ELSE 0

\* str.strip()
RECURSIVE lstrip(_)
lstrip(s) == IF s # <<>> /\ IsSpace(Head(s)) THEN lstrip(Tail(s)) ELSE s
RECURSIVE rstrip(_)
rstrip(s) == IF s # <<>> /\ IsSpace(s[Len(s)])
             THEN rstrip(SubSeq(s, 1, Len(s) - 1)) ELSE s
strip(s) == rstrip(lstrip(s))

\* sub in s
Contains(s, sub) == \E i \in 1..(Len(s) + 1) : MatchesAt(s, i, sub) \/ sub = <<>>

\* a < b for Python str (code point order, a proper prefix is smaller)
RECURSIVE StrLess(_, _)
StrLess(a, b) ==
    IF b = <<>> THEN FALSE
    ELSE IF a = <<>> THEN TRUE
    ELSE IF Head(a) = Head(b) THEN StrLess(Tail(a), Tail(b))
    ELSE CharCode(Head(a)) < CharCode(Head(b))

(***************************************************************************)
(* String constants of the source.                                         *)
(***************************************************************************)
\* the default of current_priority and current_impl_status
Unknown == <<"U", "n", "k", "n", "o", "w", "n">>
\* the tags of the Priority and the Impl Status line patterns
PRIORITY_TAG == <<"*", "*", "P", "r", "i", "o", "r", "i", "t", "y", "*", "*", ":">>
IMPL_STATUS_TAG == <<"*", "*", "I", "m", "p", "l", " ", "S", "t", "a", "t", "u", "s", "*", "*", ":">>
\* the text of the test-file and test-case cells of an uncovered requirement;
\* its first element stands for the one code point U+274C
NO_COVERAGE == <<"(x)">> \o <<" ", "N", "o", " ", "t", "e", "s", "t", " ", "c", "o", "v", "e", "r", "a", "g", "e">>
\* None for a str-valued local (None and '' are both falsy)
None == <<>>

(***************************************************************************)
(* parse_requirements: the patterns of the line loop.                      *)
(***************************************************************************)
\* group (.+) after a \s* that started at g and stopped at h: the rest of
\* the line, or, when \s* ate the whole rest, its last character given back
RestGroup(line, g, h) ==
    IF h <= Len(line) THEN [ok |-> TRUE, text |-> From(line, h)]
    ELSE IF h > g THEN [ok |-> TRUE, text |-> SubSeq(line, Len(line), Len(line))]
    ELSE [ok |-> FALSE, text |-> <<>>]

\* re.match(r'-\s*\*\*([A-Z]+-[\d.]+)\*\*:\s*(.+)', line)
req_match(line) ==
    LET b == SkipSpaces(line, 2)
        f == IdEnd(line, b + 2)
        g == f + 3
        rest == RestGroup(line, g, SkipSpaces(line, g))
    IN  IF /\ At(line, 1) = "-"
           /\ MatchesAt(line, b, <<"*", "*">>)
           /\ f > 0
           /\ MatchesAt(line, f, <<"*", "*", ":">>)
           /\ rest.ok
        THEN [ok |-> TRUE, id |-> SubSeq(line, b + 2, f - 1), text |-> rest.text]
        ELSE [ok |-> FALSE, id |-> <<>>, text |-> <<>>]

\* re.match(r'\s*-\s*\*\*<Field>\*\*:\s*(.+)', line) for a field tag
field_match(line, tag) ==
    LET a == SkipSpaces(line, 1)
        b == SkipSpaces(line, a + 1)
        g == b + Len(tag)
        rest == RestGroup(line, g, SkipSpaces(line, g))
    IN  IF At(line, a) = "-" /\ MatchesAt(line, b, tag) /\ rest.ok
        THEN rest
        ELSE [ok |-> FALSE, text |-> <<>>]

priority_match(line) == field_match(line, PRIORITY_TAG)
impl_match(line) == field_match(line, IMPL_STATUS_TAG)

\* f"{text} - **Priority**: {priority} - **Impl Status**: {status}".strip()
full_description(text, priority, status) ==
    strip(text \o <<" ", "-", " ">> \o PRIORITY_TAG \o <<" ">> \o priority
               \o <<" ", "-", " ">> \o IMPL_STATUS_TAG \o <<" ">> \o status)

(***************************************************************************)
(* The re and str calls of the two renderers, by pattern shape.            *)
(***************************************************************************)
\* re.search(tag + r'\s*(\w+)', s) tried at position p only: the group
word_group_at(s, p, tag) ==
    LET a == SkipSpaces(s, p + Len(tag))
        e == SkipWord(s, a)
    IN  IF MatchesAt(s, p, tag) /\ e > a
        THEN [ok |-> TRUE, text |-> SubSeq(s, a, e - 1)]
        ELSE [ok |-> FALSE, text |-> <<>>]

\* re.search(tag + r'\s*(\w+)', s): the leftmost match from position p on
RECURSIVE search_word_from(_, _, _)
search_word_from(s, p, tag) ==
    IF p > Len(s) THEN [ok |-> FALSE, text |-> <<>>]
    ELSE IF word_group_at(s, p, tag).ok THEN word_group_at(s, p, tag)
    ELSE search_word_from(s, p + 1, tag)

search_word(s, tag) == search_word_from(s, 1, tag)

\* re.search(tag + r'\s*([^-]+)', s) tried at position p only; when the
\* greedy \s* leaves nothing for [^-]+ it gives its last character back
nonhyphen_group_at(s, p, tag) ==
    LET g == p + Len(tag)
        h == SkipSpaces(s, g)
        e == SkipNonHyphen(s, h)
    IN  IF ~MatchesAt(s, p, tag) THEN [ok |-> FALSE, text |-> <<>>]
        ELSE IF e > h THEN [ok |-> TRUE, text |-> SubSeq(s, h, e - 1)]
        ELSE IF h > g THEN [ok |-> TRUE, text |-> SubSeq(s, h - 1, h - 1)]
        ELSE [ok |-> FALSE, text |-> <<>>]

RECURSIVE search_nonhyphen_from(_, _, _)
search_nonhyphen_from(s, p, tag) ==
    IF p > Len(s) THEN [ok |-> FALSE, text |-> <<>>]
    ELSE IF nonhyphen_group_at(s, p, tag).ok THEN nonhyphen_group_at(s, p, tag)
    ELSE search_nonhyphen_from(s, p + 1, tag)

search_nonhyphen(s, tag) == search_nonhyphen_from(s, 1, tag)

\* r'\s*-\s*' + tag + r'[^-]*' matched at position p: the position after
\* the match, 0 if there is no match at p
metadata_end(s, p, tag) ==
    LET a == SkipSpaces(s, p)
        b == SkipSpaces(s, a + 1)
    IN  IF At(s, a) = "-" /\ MatchesAt(s, b, tag)
        THEN SkipNonHyphen(s, b + Len(tag))
        ELSE 0

\* re.sub(r'\s*-\s*' + tag + r'[^-]*', '', s), scanning from position p
RECURSIVE sub_metadata_from(_, _, _)
sub_metadata_from(s, p, tag) ==
    IF p > Len(s) THEN <<>>
    ELSE IF metadata_end(s, p, tag) > 0
         THEN sub_metadata_from(s, metadata_end(s, p, tag), tag)
         ELSE <<s[p]>> \o sub_metadata_from(s, p + 1, tag)

sub_metadata(s, tag) == sub_metadata_from(s, 1, tag)

\* s.replace(old, new) for a one-character old
RECURSIVE replace(_, _, _)
replace(s, old, new) ==
    IF s = <<>> THEN <<>>
    ELSE (IF Head(s) = old THEN new ELSE <<Head(s)>>) \o replace(Tail(s), old, new)

\* sorted(keys): ascending by str comparison
RECURSIVE sorted(_)
sorted(keys) ==
    IF keys = {} THEN <<>>
    ELSE LET m == CHOOSE k \in keys : \A o \in keys \ {k} : StrLess(k, o)
         IN  <<m>> \o sorted(keys \ {m})

\* percentage without the "if total > 0 else 0"
percentage_unguarded(covered, total) ==
    [num |-> covered * 100, den |-> total]

\* covered / total * 100 kept exact as the fraction num/den, 0 if total = 0
percentage(covered, total) ==
    IF total > 0 THEN [num |-> covered * 100, den |-> total]
    ELSE [num |-> 0, den |-> 1]

(***************************************************************************)
(* scan_test_files: the patterns of the line loop.                         *)
(***************************************************************************)
\* r'public\s+(?:async\s+)?Task\s+(\w+)\s*\(' tried at position p only
test_method_at(line, p) ==
    LET a == SkipSpaces(line, p + 6)
        a2 == SkipSpaces(line, a + 5)
        b == IF MatchesAt(line, a, <<"a", "s", "y", "n", "c">>) /\ a2 > a + 5 THEN a2 ELSE a
        c == SkipSpaces(line, b + 4)
        e == SkipWord(line, c)
    IN  IF /\ MatchesAt(line, p, <<"p", "u", "b", "l", "i", "c">>)
           /\ a > p + 6
           /\ MatchesAt(line, b, <<"T", "a", "s", "k">>)
           /\ c > b + 4
           /\ e > c
           /\ At(line, SkipSpaces(line, e)) = "("
        THEN [ok |-> TRUE, text |-> SubSeq(line, c, e - 1)]
        ELSE [ok |-> FALSE, text |-> <<>>]

\* re.search(test_method_pattern, line) from position p on
RECURSIVE method_match_from(_, _)
method_match_from(line, p) ==
    IF p > Len(line) THEN [ok |-> FALSE, text |-> <<>>]
    ELSE IF test_method_at(line, p).ok THEN test_method_at(line, p)
    ELSE method_match_from(line, p + 1)

method_match(line) == method_match_from(line, 1)

\* (?:\s*,\s*[A-Z]+-[\d.]+)* greedy from position e: the position after the
\* last complete repetition
RECURSIVE IdListEnd(_, _)
IdListEnd(s, e) ==
    LET b == SkipSpaces(s, e)
        n == IdEnd(s, SkipSpaces(s, b + 1))
    IN  IF At(s, b) = "," /\ n > 0 THEN IdListEnd(s, n) ELSE e

\* r'//\s*([A-Z]+-[\d.]+(?:\s*,\s*[A-Z]+-[\d.]+)*)' tried at position p only
req_comment_at(line, p) ==
    LET a == SkipSpaces(line, p + 2)
        f == IdEnd(line, a)
    IN  IF MatchesAt(line, p, <<"/", "/">>) /\ f > 0
        THEN [ok |-> TRUE, text |-> SubSeq(line, a, IdListEnd(line, f) - 1)]
        ELSE [ok |-> FALSE, text |-> <<>>]

\* re.search(req_comment_pattern, line) from position p on
RECURSIVE req_comment_from(_, _)
req_comment_from(line, p) ==
    IF p > Len(line) THEN [ok |-> FALSE, text |-> <<>>]
    ELSE IF req_comment_at(line, p).ok THEN req_comment_at(line, p)
    ELSE req_comment_from(line, p + 1)

req_comment_match(line) == req_comment_from(line, 1)

\* s.split(',')
RECURSIVE split_comma(_)
split_comma(s) ==
    IF \E i \in 1..Len(s) : s[i] = ","
    THEN LET i == CHOOSE k \in 1..Len(s) :
                     s[k] = "," /\ \A j \in 1..(k - 1) : s[j] # ","
         IN  <<SubSeq(s, 1, i - 1)>> \o split_comma(SubSeq(s, i + 1, Len(s)))
    ELSE <<s>>

\* [req_id.strip() for req_id in req_ids_text.split(',')]
req_ids_of(req_ids_text) ==
    LET parts == split_comma(req_ids_text)
    IN  [k \in 1..Len(parts) |-> strip(parts[k])]

(***************************************************************************)
(* The aggregation and the table of generate_trace_matrix (text renderer). *)
(***************************************************************************)
\* priority_match = re.search(r'\*\*Priority\*\*:\s*(\w+)', description);
\* priority = priority_match.group(1) if priority_match else "Unknown"
md_priority(description) ==
    LET priority_match_ == search_word(description, <<"*", "*", "P", "r", "i", "o", "r", "i", "t", "y", "*", "*", ":">>)
    IN  IF priority_match_.ok THEN priority_match_.text ELSE <<"U", "n", "k", "n", "o", "w", "n">>

\* impl_match = re.search(r'\*\*Impl Status\*\*:\s*([^-]+)', description)
md_impl_status(description) ==
    LET impl_match_ == search_nonhyphen(description, <<"*", "*", "I", "m", "p", "l", " ", "S", "t", "a", "t", "u", "s", "*", "*", ":">>)
    IN  IF impl_match_.ok THEN strip(impl_match_.text) ELSE <<"U", "n", "k", "n", "o", "w", "n">>

\* the three re.sub calls and the strip that clean the requirement text
md_req_text(description) ==
    strip(sub_metadata(sub_metadata(sub_metadata(description,
              <<"*", "*", "P", "r", "i", "o", "r", "i", "t", "y", "*", "*", ":">>), <<"*", "*", "I", "m", "p", "l", " ", "S", "t", "a", "t", "u", "s", "*", "*", ":">>), <<"*", "*", "V", "e", "r", "i", "f", "i", "c", "a", "t", "i", "o", "n", "*", "*", ":">>))

\* the keys of implemented_reqs
md_implemented_reqs(reqs) ==
    {req_id \in DOMAIN reqs : Contains(reqs[req_id], <<"I", "m", "p", "l", " ", "S", "t", "a", "t", "u", "s", "*", "*", ":", " ", "I", "m", "p", "l", "e", "m", "e", "n", "t", "e", "d">>)}

\* priority_stats_all / priority_stats_impl over the requirements in ids
md_priority_stats(reqs, ids, tests) ==
    [priority \in {md_priority(reqs[req_id]) : req_id \in ids} |->
        [total |-> Cardinality({req_id \in ids : md_priority(reqs[req_id]) = priority}),
         covered |-> Cardinality({req_id \in ids :
                        /\ md_priority(reqs[req_id]) = priority
                        /\ req_id \in DOMAIN tests})]]

\* priority_summary_all / priority_summary_impl: one entry per summary line
md_priority_summary(stats) ==
    LET shown == SelectSeq(<<<<"C", "r", "i", "t", "i", "c", "a", "l">>, <<"H", "i", "g", "h">>, <<"M", "e", "d", "i", "u", "m">>, <<"L", "o", "w">>, <<"U", "n", "k", "n", "o", "w", "n">>>>,
                           LAMBDA priority : priority \in DOMAIN stats)
    IN  [k \in 1..Len(shown) |->
            [priority |-> shown[k],
             covered |-> stats[shown[k]].covered,
             total |-> stats[shown[k]].total,
             coverage_pct |-> percentage(stats[shown[k]].covered, stats[shown[k]].total)]]

\* one line of the table and the values interpolated into it
md_row(req_id, priority, impl_status, safe_req_text, file_cell, test_cell) ==
    [req_id |-> req_id, priority |-> priority, impl_status |-> impl_status,
     req_text |-> safe_req_text, test_file |-> file_cell, test_case |-> test_cell,
     line |-> <<"|", " ">> \o req_id \o <<" ", "|", " ">> \o priority \o <<" ", "|", " ">> \o impl_status
              \o <<" ", "|", " ">> \o safe_req_text \o <<" ", "|", " ">> \o file_cell
              \o <<" ", "|", " ">> \o test_cell \o <<" ", "|">> \o <<"\n">>]

\* md_rows_of with the branch of an uncovered requirement left out
md_rows_of_drop_uncovered(req_id, description, tests) ==
    LET priority == md_priority(description)
        impl_status == md_impl_status(description)
        safe_req_text == replace(md_req_text(description), "|", <<"\\", "|">>)
    IN  IF req_id \in DOMAIN tests
        THEN [k \in 1..Len(tests[req_id]) |->
                 md_row(req_id, priority, impl_status, safe_req_text,
                        replace(tests[req_id][k][1], "|", <<"\\", "|">>),
                        replace(tests[req_id][k][2], "|", <<"\\", "|">>))]
        ELSE <<>>

\* the rows the loop body appends for one requirement
md_rows_of(req_id, description, tests) ==
    LET priority == md_priority(description)
        impl_status == md_impl_status(description)
        safe_req_text == replace(md_req_text(description), "|", <<"\\", "|">>)
    IN  IF req_id \in DOMAIN tests
        THEN [k \in 1..Len(tests[req_id]) |->
                 md_row(req_id, priority, impl_status, safe_req_text,
                        replace(tests[req_id][k][1], "|", <<"\\", "|">>),
                        replace(tests[req_id][k][2], "|", <<"\\", "|">>))]
        ELSE << md_row(req_id, priority, impl_status, safe_req_text,
                       NO_COVERAGE, NO_COVERAGE) >>

\* for req_id, description in sorted_requirements: ...
RECURSIVE md_rows(_, _, _)
md_rows(sorted_ids, reqs, tests) ==
    IF sorted_ids = <<>> THEN <<>>
    ELSE md_rows_of(Head(sorted_ids), reqs[Head(sorted_ids)], tests)
         \o md_rows(Tail(sorted_ids), reqs, tests)

\* everything generate_trace_matrix computes before it writes the file
generate_trace_matrix(reqs, tests) ==
    LET all_ids == DOMAIN reqs
        implemented_reqs == md_implemented_reqs(reqs)
        priority_stats_all == md_priority_stats(reqs, all_ids, tests)
        priority_stats_impl == md_priority_stats(reqs, implemented_reqs, tests)
        covered == Cardinality({req_id \in all_ids : req_id \in DOMAIN tests})
        covered_impl == Cardinality({req_id \in implemented_reqs : req_id \in DOMAIN tests})
    IN  [total_requirements |-> Cardinality(all_ids),
         covered_requirements |-> covered,
         coverage_percentage |-> percentage(covered, Cardinality(all_ids)),
         implemented_reqs |-> implemented_reqs,
         total_implemented |-> Cardinality(implemented_reqs),
         covered_implemented |-> covered_impl,
         coverage_implemented_percentage |->
             percentage(covered_impl, Cardinality(implemented_reqs)),
         priority_stats_all |-> priority_stats_all,
         priority_stats_impl |-> priority_stats_impl,
         priority_summary_all |-> md_priority_summary(priority_stats_all),
         priority_summary_impl |-> md_priority_summary(priority_stats_impl),
         rows |-> md_rows(sorted(all_ids), reqs, tests)]

(***************************************************************************)
(* The aggregation and the table of generate_html_trace_matrix (hypertext  *)
(* renderer): its own copy of the same statements.                         *)
(***************************************************************************)
\* priority_match = re.search(r'\*\*Priority\*\*:\s*(\w+)', description);
\* priority = priority_match.group(1) if priority_match else "Unknown"
html_priority(description) ==
    LET priority_match_ == search_word(description, <<"*", "*", "P", "r", "i", "o", "r", "i", "t", "y", "*", "*", ":">>)
    IN  IF priority_match_.ok THEN priority_match_.text ELSE <<"U", "n", "k", "n", "o", "w", "n">>

\* impl_match = re.search(r'\*\*Impl Status\*\*:\s*([^-]+)', description)
html_impl_status(description) ==
    LET impl_match_ == search_nonhyphen(description, <<"*", "*", "I", "m", "p", "l", " ", "S", "t", "a", "t", "u", "s", "*", "*", ":">>)
    IN  IF impl_match_.ok THEN strip(impl_match_.text) ELSE <<"U", "n", "k", "n", "o", "w", "n">>

\* the three re.sub calls and the strip that clean the requirement text
html_req_text(description) ==
    strip(sub_metadata(sub_metadata(sub_metadata(description,
              <<"*", "*", "P", "r", "i", "o", "r", "i", "t", "y", "*", "*", ":">>), <<"*", "*", "I", "m", "p", "l", " ", "S", "t", "a", "t", "u", "s", "*", "*", ":">>), <<"*", "*", "V", "e", "r", "i", "f", "i", "c", "a", "t", "i", "o", "n", "*", "*", ":">>))

\* the keys of implemented_reqs
html_implemented_reqs(reqs) ==
    {req_id \in DOMAIN reqs : Contains(reqs[req_id], <<"I", "m", "p", "l", " ", "S", "t", "a", "t", "u", "s", "*", "*", ":", " ", "I", "m", "p", "l", "e", "m", "e", "n", "t", "e", "d">>)}

\* priority_stats_all / priority_stats_impl over the requirements in ids
html_priority_stats(reqs, ids, tests) ==
    [priority \in {html_priority(reqs[req_id]) : req_id \in ids} |->
        [total |-> Cardinality({req_id \in ids : html_priority(reqs[req_id]) = priority}),
         covered |-> Cardinality({req_id \in ids :
                        /\ html_priority(reqs[req_id]) = priority
                        /\ req_id \in DOMAIN tests})]]

\* priority_summary_all / priority_summary_impl: one entry per summary line
html_priority_summary(stats) ==
    LET shown == SelectSeq(<<<<"C", "r", "i", "t", "i", "c", "a", "l">>, <<"H", "i", "g", "h">>, <<"M", "e", "d", "i", "u", "m">>, <<"L", "o", "w">>, <<"U", "n", "k", "n", "o", "w", "n">>>>,
                           LAMBDA priority : priority \in DOMAIN stats)
    IN  [k \in 1..Len(shown) |->
            [priority |-> shown[k],
             covered |-> stats[shown[k]].covered,
             total |-> stats[shown[k]].total,
             coverage_pct |-> percentage(stats[shown[k]].covered, stats[shown[k]].total)]]

\* one line of the table and the values interpolated into it
html_row(req_id, priority, impl_status, safe_req_text, file_cell, test_cell) ==
    [req_id |-> req_id, priority |-> priority, impl_status |-> impl_status,
     req_text |-> safe_req_text, test_file |-> file_cell, test_case |-> test_cell,
     line |-> <<"|", " ">> \o req_id \o <<" ", "|", " ">> \o priority \o <<" ", "|", " ">> \o impl_status
              \o <<" ", "|", " ">> \o safe_req_text \o <<" ", "|", " ">> \o file_cell
              \o <<" ", "|", " ">> \o test_cell \o <<" ", "|">> \o <<"\n">>]

\* html_rows_of with the file path put into the row as it is
html_rows_of_raw_path(req_id, description, tests) ==
    LET priority == html_priority(description)
        impl_status == html_impl_status(description)
        safe_req_text == replace(html_req_text(description), "|", <<"\\", "|">>)
    IN  IF req_id \in DOMAIN tests
        THEN [k \in 1..Len(tests[req_id]) |->
                 html_row(req_id, priority, impl_status, safe_req_text,
                          tests[req_id][k][1],
                          replace(tests[req_id][k][2], "|", <<"\\", "|">>))]
        ELSE << html_row(req_id, priority, impl_status, safe_req_text,
                         NO_COVERAGE, NO_COVERAGE) >>

\* the rows the loop body appends for one requirement
html_rows_of(req_id, description, tests) ==
    LET priority == html_priority(description)
        impl_status == html_impl_status(description)
        safe_req_text == replace(html_req_text(description), "|", <<"\\", "|">>)
    IN  IF req_id \in DOMAIN tests
        THEN [k \in 1..Len(tests[req_id]) |->
                 html_row(req_id, priority, impl_status, safe_req_text,
                        replace(tests[req_id][k][1], "|", <<"\\", "|">>),
                        replace(tests[req_id][k][2], "|", <<"\\", "|">>))]
        ELSE << html_row(req_id, priority, impl_status, safe_req_text,
                       NO_COVERAGE, NO_COVERAGE) >>

\* for req_id, description in sorted_requirements: ...
RECURSIVE html_rows(_, _, _)
html_rows(sorted_ids, reqs, tests) ==
    IF sorted_ids = <<>> THEN <<>>
    ELSE html_rows_of(Head(sorted_ids), reqs[Head(sorted_ids)], tests)
         \o html_rows(Tail(sorted_ids), reqs, tests)

\* everything generate_html_trace_matrix computes before it converts and writes
generate_html_trace_matrix(reqs, tests) ==
    LET all_ids == DOMAIN reqs
        implemented_reqs == html_implemented_reqs(reqs)
        priority_stats_all == html_priority_stats(reqs, all_ids, tests)
        priority_stats_impl == html_priority_stats(reqs, implemented_reqs, tests)
        covered == Cardinality({req_id \in all_ids : req_id \in DOMAIN tests})
        covered_impl == Cardinality({req_id \in implemented_reqs : req_id \in DOMAIN tests})
    IN  [total_requirements |-> Cardinality(all_ids),
         covered_requirements |-> covered,
         coverage_percentage |-> percentage(covered, Cardinality(all_ids)),
         implemented_reqs |-> implemented_reqs,
         total_implemented |-> Cardinality(implemented_reqs),
         covered_implemented |-> covered_impl,
         coverage_implemented_percentage |->
             percentage(covered_impl, Cardinality(implemented_reqs)),
         priority_stats_all |-> priority_stats_all,
         priority_stats_impl |-> priority_stats_impl,
         priority_summary_all |-> html_priority_summary(priority_stats_all),
         priority_summary_impl |-> html_priority_summary(priority_stats_impl),
         rows |-> html_rows(sorted(all_ids), reqs, tests)]

(***************************************************************************)
(* Inputs: the lines a document or a source file may hold, and the files   *)
(* the two test directories may hold.                                      *)
(***************************************************************************)
DocLines ==
    { <<"-", " ", "*", "*", "A", "-", "1", "*", "*", ":", " ", "x">>,
      <<"-", " ", "*", "*", "A", "-", "1", "*", "*", ":", " ", "a", "|", "b">>,
      <<"-", " ", "*", "*", "B", "-", "2", "*", "*", ":", " ", "y">>,
      <<" ", " ", "-", " ", "*", "*", "P", "r", "i", "o", "r", "i", "t", "y", "*", "*", ":", " ", "H", "i", "g", "h">>,
      <<" ", " ", "-", " ", "*", "*", "P", "r", "i", "o", "r", "i", "t", "y", "*", "*", ":", " ", "U", "r", "g", "e", "n", "t">>,
      <<" ", " ", "-", " ", "*", "*", "I", "m", "p", "l", " ", "S", "t", "a", "t", "u", "s", "*", "*", ":", " ", "I", "m", "p", "l", "e", "m", "e", "n", "t", "e", "d">>,
      <<" ", " ", "-", " ", "*", "*", "I", "m", "p", "l", " ", "S", "t", "a", "t", "u", "s", "*", "*", ":", " ", "I", "m", "p", "l", "e", "m", "e", "n", "t", "e", "d", " ", "|", " ", "p", "a", "r", "t", "l", "y">>,
      <<" ", " ", "-", " ", "*", "*", "P", "r", "i", "o", "r", "i", "t", "y", "*", "*", ":", " ", "V", "e", "r", "y", " ", "H", "i", "g", "h">>,
      <<>> }

TestLines ==
    { <<"p", "u", "b", "l", "i", "c", " ", "a", "s", "y", "n", "c", " ", "T", "a", "s", "k", " ", "T", "(", ")", " ", "/", "/", " ", "A", "-", "1", ",", " ", "A", "-", "1">>,
      <<" ", " ", "p", "u", "b", "l", "i", "c", " ", "T", "a", "s", "k", " ", "U", " ", "(", ")">>,
      <<"/", "/", " ", "A", "-", "1", ",", " ", "Z", "-", "9">>,
      <<" ", " ", "/", "/", " ", "B", "-", "2">> }

\* test_directories of main, relative to the project root
test_directories == << <<"t", "e", "s", "t", "/", "M", "o", "g", "z", "i", ".", "T", "U", "I", ".", "T", "e", "s", "t", "s">>, <<"t", "e", "s", "t", "/", "M", "o", "g", "z", "i", ".", "T", "e", "s", "t", "s">> >>

\* what test_directory.glob('**/*.cs') may yield, relative to the directory
GlobResults == { <<>>, << <<"A", ".", "c", "s">> >>, << <<"A", ".", "c", "s">>, <<"B", "|", "C", ".", "c", "s">> >> }

\* exit status of a run that has not ended
Running == -1

VARIABLES
    pc,                  \* the statement main is at
    MARKDOWN_AVAILABLE,  \* set by the import at module load
    exit_code,           \* the status the process ended with, or Running
    steps,               \* history: the pipeline steps entered so far
    requirements,        \* parse_requirements: identifier -> description
    current_req_id,      \* parse_requirements locals
    current_req_text,
    current_priority,
    current_impl_status,
    lines_read,          \* number of document lines consumed
    doc_current,         \* history: the identifier of the block the document is in
    doc_fields,          \* history: identifier -> the fields of its last block
    superseded,          \* history: the blocks a later block of the same id replaced
    requirement_tests,   \* scan_test_files: identifier -> list of (file, test)
    dir_index,           \* scan_test_files: index into test_directories
    pending_files,       \* the rest of the glob of the current directory
    test_file,           \* the file being scanned, relative to its directory
    current_test_method,
    scan_lines_read,     \* number of source lines consumed
    references,          \* history: (id, file, test) -> times referenced (2 = more)
    last_declared,       \* history: the latest test declared in the file being read
    unattributed,        \* history: that file had a reference before any declaration
    failed_after_reference, \* history: a root or file was skipped after a reference
    md_out,              \* what generate_trace_matrix computed
    md_written,          \* the text artifact was written
    html_out,            \* what generate_html_trace_matrix computed
    html_written         \* the hypertext artifact was written

parser_vars == <<requirements, current_req_id, current_req_text,
                 current_priority, current_impl_status, lines_read,
                 doc_current, doc_fields, superseded>>
scanner_vars == <<requirement_tests, dir_index, pending_files, test_file,
                  current_test_method, scan_lines_read, references,
                  last_declared, unattributed, failed_after_reference>>
render_vars == <<md_out, md_written, html_out, html_written>>
vars == <<pc, MARKDOWN_AVAILABLE, exit_code, steps,
          parser_vars, scanner_vars, render_vars>>

\* an empty dict
EmptyDict == [k \in {} |-> <<>>]

\* d[k] = v
DictSet(d, k, v) == [x \in DOMAIN d \cup {k} |-> IF x = k THEN v ELSE d[x]]

\* no renderer output yet
NoOutput == [total_requirements |-> 0, rows |-> <<>>]

Init ==
    /\ pc = "check_dependency"
    /\ MARKDOWN_AVAILABLE \in BOOLEAN
    /\ exit_code = Running
    /\ steps = <<>>
    /\ requirements = EmptyDict
    /\ current_req_id = None
    /\ current_req_text = <<>>
    /\ current_priority = Unknown
    /\ current_impl_status = Unknown
    /\ lines_read = 0
    /\ doc_current = None
    /\ doc_fields = EmptyDict
    /\ superseded = {}
    /\ requirement_tests = EmptyDict
    /\ dir_index = 1
    /\ pending_files = <<>>
    /\ test_file = None
    /\ current_test_method = None
    /\ scan_lines_read = 0
    /\ references = EmptyDict
    /\ last_declared = None
    /\ unattributed = FALSE
    /\ failed_after_reference = FALSE
    /\ md_out = NoOutput
    /\ md_written = FALSE
    /\ html_out = NoOutput
    /\ html_written = FALSE

(***************************************************************************)
(* main                                                                    *)
(***************************************************************************)
\* sys.exit(1)
Exit1 == pc' = "exited" /\ exit_code' = 1

\* CheckDependency without the sys.exit(1)
CheckDependency_no_exit ==
    /\ pc = "check_dependency"
    /\ steps' = Append(steps, "dependency")
    /\ pc' = "parse_open" /\ exit_code' = exit_code
    /\ UNCHANGED <<MARKDOWN_AVAILABLE, parser_vars, scanner_vars, render_vars>>

\* if not MARKDOWN_AVAILABLE: ... sys.exit(1)
CheckDependency ==
    /\ pc = "check_dependency"
    /\ steps' = Append(steps, "dependency")
    /\ IF ~MARKDOWN_AVAILABLE THEN Exit1
       ELSE pc' = "parse_open" /\ exit_code' = exit_code
    /\ UNCHANGED <<MARKDOWN_AVAILABLE, parser_vars, scanner_vars, render_vars>>

(***************************************************************************)
(* parse_requirements                                                      *)
(***************************************************************************)
\* StoreCurrent that keeps an entry the mapping already has
StoreCurrent_first_wins(reqs) ==
    IF current_req_id # None /\ current_req_id \notin DOMAIN reqs
    THEN DictSet(reqs, current_req_id,
                 full_description(current_req_text, current_priority,
                                  current_impl_status))
    ELSE reqs

\* the statement that stores the accumulated requirement
StoreCurrent(reqs) ==
    IF current_req_id # None
    THEN DictSet(reqs, current_req_id,
                 full_description(current_req_text, current_priority,
                                  current_impl_status))
    ELSE reqs

\* the file is missing, or reading it raises, or its lines are iterated
ParseOpen ==
    /\ pc = "parse_open"
    /\ steps' = Append(steps, "parse")
    /\ \E outcome \in {"missing", "read_error", "ok"} :
          pc' = IF outcome = "ok" THEN "parse_line" ELSE "check_requirements"
    /\ UNCHANGED <<MARKDOWN_AVAILABLE, exit_code, parser_vars, scanner_vars,
                   render_vars>>

\* the history of the document, told from the lines alone: a requirement
\* line opens a block with both fields Unknown, a field line sets the field
\* of the open block
DocFieldsAfter(line) ==
    IF req_match(line).ok
    THEN DictSet(doc_fields, req_match(line).id,
                 [text |-> strip(req_match(line).text),
                  priority |-> Unknown, impl_status |-> Unknown])
    ELSE IF doc_current # None /\ priority_match(line).ok
    THEN [doc_fields EXCEPT ![doc_current].priority =
                                strip(priority_match(line).text)]
    ELSE IF doc_current # None /\ impl_match(line).ok
    THEN [doc_fields EXCEPT ![doc_current].impl_status =
                                strip(impl_match(line).text)]
    ELSE doc_fields

\* the blocks that a requirement line with an identifier seen before replaces
SupersededAfter(line) ==
    IF req_match(line).ok /\ req_match(line).id \in DOMAIN doc_fields
    THEN superseded \cup
            {[id |-> req_match(line).id,
              fields |-> doc_fields[req_match(line).id]]}
    ELSE superseded

\* ParseLineBody without the reset of the two fields at a requirement line
ParseLineBody_fields_inherited(line) ==
    /\ IF req_match(line).ok
       THEN /\ requirements' = StoreCurrent(requirements)
            /\ current_req_id' = req_match(line).id
            /\ current_req_text' = strip(req_match(line).text)
            /\ UNCHANGED <<current_priority, current_impl_status>>
       ELSE IF current_req_id # None /\ priority_match(line).ok
       THEN /\ current_priority' = strip(priority_match(line).text)
            /\ UNCHANGED <<requirements, current_req_id, current_req_text,
                           current_impl_status>>
       ELSE IF current_req_id # None /\ impl_match(line).ok
       THEN /\ current_impl_status' = strip(impl_match(line).text)
            /\ UNCHANGED <<requirements, current_req_id, current_req_text,
                           current_priority>>
       ELSE UNCHANGED <<requirements, current_req_id, current_req_text,
                        current_priority, current_impl_status>>
    /\ doc_fields' = DocFieldsAfter(line)
    /\ superseded' = SupersededAfter(line)
    /\ doc_current' = IF req_match(line).ok THEN req_match(line).id
                      ELSE doc_current

\* one iteration of the line loop
ParseLineBody(line) ==
    /\ IF req_match(line).ok
       THEN /\ requirements' = StoreCurrent(requirements)
            /\ current_req_id' = req_match(line).id
            /\ current_req_text' = strip(req_match(line).text)
            /\ current_priority' = Unknown
            /\ current_impl_status' = Unknown
       ELSE IF current_req_id # None /\ priority_match(line).ok
       THEN /\ current_priority' = strip(priority_match(line).text)
            /\ UNCHANGED <<requirements, current_req_id, current_req_text,
                           current_impl_status>>
       ELSE IF current_req_id # None /\ impl_match(line).ok
       THEN /\ current_impl_status' = strip(impl_match(line).text)
            /\ UNCHANGED <<requirements, current_req_id, current_req_text,
                           current_priority>>
       ELSE UNCHANGED <<requirements, current_req_id, current_req_text,
                        current_priority, current_impl_status>>
    /\ doc_fields' = DocFieldsAfter(line)
    /\ superseded' = SupersededAfter(line)
    /\ doc_current' = IF req_match(line).ok THEN req_match(line).id
                      ELSE doc_current

ParseLine ==
    /\ pc = "parse_line"
    /\ lines_read < MaxDocLines
    /\ \E line \in DocLines : ParseLineBody(line)
    /\ lines_read' = lines_read + 1
    /\ UNCHANGED <<pc, MARKDOWN_AVAILABLE, exit_code, steps, scanner_vars,
                   render_vars>>

\* the end of the document: store the last requirement and return
ParseEnd ==
    /\ pc = "parse_line"
    /\ requirements' = StoreCurrent(requirements)
    /\ current_req_id' = None
    /\ current_req_text' = <<>>
    /\ current_priority' = Unknown
    /\ current_impl_status' = Unknown
    /\ lines_read' = 0
    /\ doc_current' = None
    /\ pc' = "check_requirements"
    /\ UNCHANGED <<MARKDOWN_AVAILABLE, exit_code, steps, doc_fields,
                   superseded, scanner_vars, render_vars>>

\* if not requirements: ... sys.exit(1)
CheckRequirements ==
    /\ pc = "check_requirements"
    /\ IF DOMAIN requirements = {}
       THEN Exit1 /\ steps' = steps
       ELSE pc' = "scan_dir" /\ exit_code' = exit_code
            /\ steps' = Append(steps, "scan")
    /\ UNCHANGED <<MARKDOWN_AVAILABLE, parser_vars, scanner_vars, render_vars>>

(***************************************************************************)
(* scan_test_files                                                         *)
(***************************************************************************)
\* str(test_file.relative_to(test_directory.parent.parent))
relative_path(directory, file) == directory \o <<"/">> \o file

\* AddTests without the "if test_info not in" test
RECURSIVE AddTests_no_dedup(_, _, _)
AddTests_no_dedup(tests, req_ids, test_info) ==
    IF req_ids = <<>> THEN tests
    ELSE LET req_id == Head(req_ids)
             old == IF req_id \in DOMAIN tests THEN tests[req_id] ELSE <<>>
         IN  AddTests_no_dedup(DictSet(tests, req_id, Append(old, test_info)),
                               Tail(req_ids), test_info)

\* AddTests that records only the identifiers the parser has found
RECURSIVE AddTests_parsed_only(_, _, _)
AddTests_parsed_only(tests, req_ids, test_info) ==
    IF req_ids = <<>> THEN tests
    ELSE LET req_id == Head(req_ids)
             old == IF req_id \in DOMAIN tests THEN tests[req_id] ELSE <<>>
             new == IF \E k \in 1..Len(old) : old[k] = test_info
                    THEN old ELSE Append(old, test_info)
         IN  IF req_id \in DOMAIN requirements
             THEN AddTests_parsed_only(DictSet(tests, req_id, new),
                                       Tail(req_ids), test_info)
             ELSE AddTests_parsed_only(tests, Tail(req_ids), test_info)

\* the history of the sources: every attributed reference, counted
RECURSIVE ReferencesAfter(_, _, _)
ReferencesAfter(refs, req_ids, test_info) ==
    IF req_ids = <<>> THEN refs
    ELSE LET key == <<Head(req_ids), test_info[1], test_info[2]>>
             seen == IF key \in DOMAIN refs THEN refs[key] ELSE 0
         IN  ReferencesAfter(DictSet(refs, key, IF seen = 0 THEN 1 ELSE 2),
                             Tail(req_ids), test_info)

\* AddTests that puts a new pair in front of the list
RECURSIVE AddTests_prepend(_, _, _)
AddTests_prepend(tests, req_ids, test_info) ==
    IF req_ids = <<>> THEN tests
    ELSE LET req_id == Head(req_ids)
             old == IF req_id \in DOMAIN tests THEN tests[req_id] ELSE <<>>
             new == IF \E k \in 1..Len(old) : old[k] = test_info
                    THEN old ELSE <<test_info>> \o old
         IN  AddTests_prepend(DictSet(tests, req_id, new), Tail(req_ids),
                              test_info)

\* the inner loop over req_ids: create the list, append unless present
RECURSIVE AddTests(_, _, _)
AddTests(tests, req_ids, test_info) ==
    IF req_ids = <<>> THEN tests
    ELSE LET req_id == Head(req_ids)
             old == IF req_id \in DOMAIN tests THEN tests[req_id] ELSE <<>>
             new == IF \E k \in 1..Len(old) : old[k] = test_info
                    THEN old ELSE Append(old, test_info)
         IN  AddTests(DictSet(tests, req_id, new), Tail(req_ids), test_info)

\* the top of the loop over test_directories
ScanDirectory ==
    /\ pc = "scan_dir"
    /\ dir_index <= Len(test_directories)
    /\ \E exists \in BOOLEAN :
          IF exists
          THEN /\ \E files \in GlobResults : pending_files' = files
               /\ pc' = "scan_file"
               /\ dir_index' = dir_index
               /\ UNCHANGED failed_after_reference
          ELSE /\ dir_index' = dir_index + 1
               /\ failed_after_reference' =
                     (failed_after_reference \/ DOMAIN references # {})
               /\ UNCHANGED <<pc, pending_files>>
    /\ UNCHANGED <<MARKDOWN_AVAILABLE, exit_code, steps, parser_vars,
                   requirement_tests, test_file, current_test_method,
                   scan_lines_read, references, last_declared, unattributed,
                   render_vars>>

\* ScanFile without the "current_test_method = None" of a newly opened file
ScanFile_keep_method ==
    /\ pc = "scan_file"
    /\ IF pending_files = <<>>
       THEN /\ dir_index' = dir_index + 1
            /\ pc' = "scan_dir"
            /\ UNCHANGED <<pending_files, test_file, current_test_method,
                           failed_after_reference>>
       ELSE /\ pending_files' = Tail(pending_files)
            /\ dir_index' = dir_index
            /\ \E readable \in BOOLEAN :
                  IF readable
                  THEN /\ test_file' = Head(pending_files)
                       /\ current_test_method' = current_test_method
                       /\ pc' = "scan_line"
                       /\ UNCHANGED failed_after_reference
                  ELSE /\ failed_after_reference' =
                             (failed_after_reference \/ DOMAIN references # {})
                       /\ UNCHANGED <<pc, test_file, current_test_method>>
    /\ UNCHANGED <<MARKDOWN_AVAILABLE, exit_code, steps, parser_vars,
                   requirement_tests, scan_lines_read, references,
                   last_declared, unattributed, render_vars>>

\* ScanFile without the try/except: an unreadable file ends the run
ScanFile_unreadable_aborts ==
    /\ pc = "scan_file"
    /\ IF pending_files = <<>>
       THEN /\ dir_index' = dir_index + 1
            /\ pc' = "scan_dir"
            /\ UNCHANGED <<pending_files, test_file, current_test_method,
                           failed_after_reference>>
       ELSE /\ pending_files' = Tail(pending_files)
            /\ dir_index' = dir_index
            /\ \E readable \in BOOLEAN :
                  IF readable
                  THEN /\ test_file' = Head(pending_files)
                       /\ current_test_method' = None
                       /\ pc' = "scan_line"
                       /\ UNCHANGED failed_after_reference
                  ELSE /\ failed_after_reference' =
                             (failed_after_reference \/ DOMAIN references # {})
                       /\ pc' = "exited"
                       /\ UNCHANGED <<test_file, current_test_method>>
    /\ exit_code' = IF pc' = "exited" THEN 1 ELSE exit_code
    /\ UNCHANGED <<MARKDOWN_AVAILABLE, steps, parser_vars,
                   requirement_tests, scan_lines_read, references,
                   last_declared, unattributed, render_vars>>

\* the top of the loop over the files of a directory
ScanFile ==
    /\ pc = "scan_file"
    /\ IF pending_files = <<>>
       THEN /\ dir_index' = dir_index + 1
            /\ pc' = "scan_dir"
            /\ UNCHANGED <<pending_files, test_file, current_test_method,
                           failed_after_reference>>
       ELSE /\ pending_files' = Tail(pending_files)
            /\ dir_index' = dir_index
            /\ \E readable \in BOOLEAN :
                  IF readable
                  THEN /\ test_file' = Head(pending_files)
                       /\ current_test_method' = None
                       /\ pc' = "scan_line"
                       /\ UNCHANGED failed_after_reference
                  ELSE /\ failed_after_reference' =
                             (failed_after_reference \/ DOMAIN references # {})
                       /\ UNCHANGED <<pc, test_file, current_test_method>>
    /\ UNCHANGED <<MARKDOWN_AVAILABLE, exit_code, steps, parser_vars,
                   requirement_tests, scan_lines_read, references,
                   last_declared, unattributed, render_vars>>

\* ScanLineBody that creates the list of an identifier before it tests
\* current_test_method
ScanLineBody_keys_unattributed(line) ==
    LET method == IF method_match(line).ok THEN method_match(line).text
                  ELSE current_test_method
        req_match_ == req_comment_match(line)
        req_ids == req_ids_of(req_match_.text)
        test_info == << relative_path(test_directories[dir_index], test_file),
                        method >>
    IN  /\ current_test_method' = method
        /\ requirement_tests' =
              IF req_match_.ok /\ method # None
              THEN AddTests(requirement_tests, req_ids, test_info)
              ELSE IF req_match_.ok
              THEN [req_id \in DOMAIN requirement_tests
                               \cup {req_ids[k] : k \in 1..Len(req_ids)} |->
                       IF req_id \in DOMAIN requirement_tests
                       THEN requirement_tests[req_id] ELSE <<>>]
              ELSE requirement_tests
        /\ references' =
              IF req_match_.ok /\ method # None
              THEN ReferencesAfter(references, req_ids, test_info)
              ELSE references
        /\ last_declared' = IF method_match(line).ok
                            THEN method_match(line).text ELSE last_declared
        /\ unattributed' = \/ unattributed
                           \/ /\ req_comment_match(line).ok
                              /\ ~method_match(line).ok
                              /\ last_declared = None

\* one iteration of the line loop of a file
ScanLineBody(line) ==
    LET method == IF method_match(line).ok THEN method_match(line).text
                  ELSE current_test_method
        req_match_ == req_comment_match(line)
        test_info == << relative_path(test_directories[dir_index], test_file),
                        method >>
    IN  /\ current_test_method' = method
        /\ requirement_tests' =
              IF req_match_.ok /\ method # None
              THEN AddTests(requirement_tests, req_ids_of(req_match_.text),
                            test_info)
              ELSE requirement_tests
        /\ references' =
              IF req_match_.ok /\ method # None
              THEN ReferencesAfter(references, req_ids_of(req_match_.text),
                                   test_info)
              ELSE references
        /\ last_declared' = IF method_match(line).ok
                            THEN method_match(line).text ELSE last_declared
        /\ unattributed' = \/ unattributed
                           \/ /\ req_comment_match(line).ok
                              /\ ~method_match(line).ok
                              /\ last_declared = None

ScanLine ==
    /\ pc = "scan_line"
    /\ scan_lines_read < MaxScanLines
    /\ \E line \in TestLines : ScanLineBody(line)
    /\ scan_lines_read' = scan_lines_read + 1
    /\ UNCHANGED <<pc, MARKDOWN_AVAILABLE, exit_code, steps, parser_vars,
                   dir_index, pending_files, test_file,
                   failed_after_reference, render_vars>>

\* the end of a file
ScanFileEnd ==
    /\ pc = "scan_line"
    /\ pc' = "scan_file"
    /\ test_file' = None
    /\ last_declared' = None
    /\ unattributed' = FALSE
    /\ UNCHANGED <<MARKDOWN_AVAILABLE, exit_code, steps, parser_vars,
                   requirement_tests, dir_index, pending_files,
                   current_test_method, scan_lines_read, references,
                   failed_after_reference, render_vars>>

\* return requirement_tests
ScanReturn ==
    /\ pc = "scan_dir"
    /\ dir_index > Len(test_directories)
    /\ pc' = "render_md"
    /\ dir_index' = 1
    /\ scan_lines_read' = 0
    /\ current_test_method' = None
    /\ failed_after_reference' = FALSE
    /\ UNCHANGED <<MARKDOWN_AVAILABLE, exit_code, steps, parser_vars,
                   requirement_tests, pending_files, test_file, references,
                   last_declared, unattributed, render_vars>>

(***************************************************************************)
(* The two renderers as called by main.                                    *)
(***************************************************************************)
\* generate_trace_matrix(requirements, requirement_tests, output_file)
RenderMd ==
    /\ pc = "render_md"
    /\ \E io \in {"mkdir_error", "write_error", "ok"} :
          /\ md_out' = IF io = "mkdir_error" THEN md_out
                       ELSE generate_trace_matrix(requirements, requirement_tests)
          /\ md_written' = (io = "ok")
          /\ steps' = IF io = "ok" THEN Append(steps, "write_md") ELSE steps
          /\ IF io = "ok" THEN pc' = "render_html" /\ exit_code' = exit_code
             ELSE Exit1
    /\ UNCHANGED <<MARKDOWN_AVAILABLE, parser_vars, scanner_vars,
                   html_out, html_written>>

\* RenderHtml that lets main return normally whatever the write did
RenderHtml_exit0 ==
    /\ pc = "render_html"
    /\ \E io \in {"mkdir_error", "write_error", "ok"} :
          /\ html_out' = IF io = "mkdir_error" THEN html_out
                         ELSE generate_html_trace_matrix(requirements,
                                                         requirement_tests)
          /\ html_written' = (io = "ok")
          /\ steps' = IF io = "ok" THEN Append(steps, "write_html") ELSE steps
          /\ pc' = "exited"
          /\ exit_code' = 0
    /\ UNCHANGED <<MARKDOWN_AVAILABLE, parser_vars, scanner_vars,
                   md_out, md_written>>

\* generate_html_trace_matrix(requirements, requirement_tests, html_output_file)
\* and the return of main
RenderHtml ==
    /\ pc = "render_html"
    /\ \E io \in {"mkdir_error", "write_error", "ok"} :
          /\ html_out' = IF io = "mkdir_error" THEN html_out
                         ELSE generate_html_trace_matrix(requirements,
                                                         requirement_tests)
          /\ html_written' = (io = "ok")
          /\ steps' = IF io = "ok" THEN Append(steps, "write_html") ELSE steps
          /\ pc' = "exited"
          /\ exit_code' = IF io = "ok" THEN 0 ELSE 1
    /\ UNCHANGED <<MARKDOWN_AVAILABLE, parser_vars, scanner_vars,
                   md_out, md_written>>

Next ==
    \/ CheckDependency
    \/ ParseOpen
    \/ ParseLine
    \/ ParseEnd
    \/ CheckRequirements
    \/ ScanDirectory
    \/ ScanFile
    \/ ScanLine
    \/ ScanFileEnd
    \/ ScanReturn
    \/ RenderMd
    \/ RenderHtml

Spec == Init /\ [][Next]_vars


(***************************************************************************)
(* The two renderers as functions of their arguments: every pair of        *)
(* mappings a caller may pass, the empty ones included.                    *)
(***************************************************************************)
AggregateIds == { <<"A", "-", "1">>, <<"B", "-", "2">> }

\* descriptions as parse_requirements builds them
AggregateDescriptions ==
    { full_description(<<"x">>, priority, status) :
          priority \in { <<"C", "r", "i", "t", "i", "c", "a", "l">>, <<"H", "i", "g", "h">>, Unknown },
          status \in { <<"I", "m", "p", "l", "e", "m", "e", "n", "t", "e", "d">>, Unknown } }

\* the requirements argument
AggregateRequirements ==
    UNION { [ids -> AggregateDescriptions] : ids \in SUBSET AggregateIds }

\* the requirement_tests argument
AggregateTests ==
    UNION { [ids -> { << << <<"t", "e", "s", "t", "/", "M", "o", "g", "z", "i", ".", "T", "e", "s", "t", "s", "/", "A", ".", "c", "s">>, <<"T">> >> >> }] :
                ids \in SUBSET AggregateIds }

InitAggregate ==
    /\ pc = "call"
    /\ MARKDOWN_AVAILABLE = TRUE
    /\ exit_code = Running
    /\ steps = <<>>
    /\ requirements \in AggregateRequirements
    /\ current_req_id = None
    /\ current_req_text = <<>>
    /\ current_priority = Unknown
    /\ current_impl_status = Unknown
    /\ lines_read = 0
    /\ doc_current = None
    /\ doc_fields = EmptyDict
    /\ superseded = {}
    /\ requirement_tests \in AggregateTests
    /\ dir_index = 1
    /\ pending_files = <<>>
    /\ test_file = None
    /\ current_test_method = None
    /\ scan_lines_read = 0
    /\ references = EmptyDict
    /\ last_declared = None
    /\ unattributed = FALSE
    /\ failed_after_reference = FALSE
    /\ md_out = NoOutput
    /\ md_written = FALSE
    /\ html_out = NoOutput
    /\ html_written = FALSE

\* generate_trace_matrix(requirements, requirement_tests, output_file)
CallGenerateTraceMatrix ==
    /\ pc = "call"
    /\ md_out' = generate_trace_matrix(requirements, requirement_tests)
    /\ UNCHANGED <<pc, MARKDOWN_AVAILABLE, exit_code, steps, parser_vars,
                   scanner_vars, md_written, html_out, html_written>>

\* generate_html_trace_matrix(requirements, requirement_tests, output_file)
CallGenerateHtmlTraceMatrix ==
    /\ pc = "call"
    /\ html_out' = generate_html_trace_matrix(requirements, requirement_tests)
    /\ UNCHANGED <<pc, MARKDOWN_AVAILABLE, exit_code, steps, parser_vars,
                   scanner_vars, md_out, md_written, html_written>>

NextAggregate ==
    \/ CallGenerateTraceMatrix
    \/ CallGenerateHtmlTraceMatrix

SpecAggregate == InitAggregate /\ [][NextAggregate]_vars

(***************************************************************************)
(* Properties.                                                             *)
(***************************************************************************)
\* the outputs of the renderers that have run
Rendered == {out \in {md_out, html_out} : out # NoOutput}

\* the indices of the rows of a requirement
RowsFor(out, req_id) == {k \in 1..Len(out.rows) : out.rows[k].req_id = req_id}

\* the (file, test) pairs the scanned sources attribute to a requirement
PairsOf(req_id) ==
    {<<key[2], key[3]>> : key \in {k \in DOMAIN references : k[1] = req_id}}

\* C1: in both renderers the Implemented subset is exactly the set of parsed
\* requirements whose implementation status value equals "Implemented"; a
\* status that only begins with "Implemented" is not in it.
C1_ImplementedSubsetIsExact ==
    \A out \in Rendered :
        out.implemented_reqs =
            {req_id \in DOMAIN requirements :
                doc_fields[req_id].impl_status = <<"I", "m", "p", "l", "e", "m", "e", "n", "t", "e", "d">>}

\* the bucket the breakdown is to count a priority value under
BucketOf(priority) ==
    IF priority \in { <<"C", "r", "i", "t", "i", "c", "a", "l">>, <<"H", "i", "g", "h">>, <<"M", "e", "d", "i", "u", "m">>, <<"L", "o", "w">> }
    THEN priority ELSE <<"U", "n", "k", "n", "o", "w", "n">>

\* the total a priority summary reports for a bucket, 0 if it has no line
ReportedTotal(summary, bucket) ==
    IF \E k \in 1..Len(summary) : summary[k].priority = bucket
    THEN summary[CHOOSE k \in 1..Len(summary) : summary[k].priority = bucket].total
    ELSE 0

\* the sum of the totals a priority summary reports
RECURSIVE SumReported(_)
SumReported(summary) ==
    IF summary = <<>> THEN 0
    ELSE Head(summary).total + SumReported(Tail(summary))

\* C2: the per-priority breakdown partitions the requirement set (and the
\* Implemented subset) over Critical, High, Medium, Low, Unknown: a
\* requirement whose priority is absent or not one of the four named values
\* is counted under Unknown, and the reported totals sum to the total.
C2_PriorityBucketsPartition ==
    \A out \in Rendered :
        /\ \A bucket \in { <<"C", "r", "i", "t", "i", "c", "a", "l">>, <<"H", "i", "g", "h">>, <<"M", "e", "d", "i", "u", "m">>, <<"L", "o", "w">>, <<"U", "n", "k", "n", "o", "w", "n">> } :
              /\ ReportedTotal(out.priority_summary_all, bucket) =
                    Cardinality({req_id \in DOMAIN requirements :
                        BucketOf(doc_fields[req_id].priority) = bucket})
              /\ ReportedTotal(out.priority_summary_impl, bucket) =
                    Cardinality({req_id \in out.implemented_reqs :
                        BucketOf(doc_fields[req_id].priority) = bucket})
        /\ SumReported(out.priority_summary_all) = out.total_requirements
        /\ SumReported(out.priority_summary_impl) = out.total_implemented

\* the number of backslashes that directly precede position i
RECURSIVE BackslashesBefore(_, _)
BackslashesBefore(s, i) ==
    IF i > 1 /\ s[i - 1] = "\\" THEN 1 + BackslashesBefore(s, i - 1) ELSE 0

\* the number of pipes of a table line that no backslash escapes
UnescapedPipes(s) ==
    Cardinality({i \in 1..Len(s) :
        s[i] = "|" /\ BackslashesBefore(s, i) % 2 = 0})

\* C3: in every row of either renderer every pipe that comes from the input
\* is escaped, so the row has exactly six cells: seven unescaped pipes.
C3_RowsHaveSixCells ==
    \A out \in Rendered :
        \A k \in 1..Len(out.rows) : UnescapedPipes(out.rows[k].line) = 7

\* C4: every parsed requirement has a row, and one without test references
\* in the scanner output has exactly one row, with the no-coverage text in
\* the test-file and the test-case column.
C4_UncoveredRequirementHasOneSentinelRow ==
    \A out \in Rendered :
        \A req_id \in DOMAIN requirements :
            /\ RowsFor(out, req_id) # {}
            /\ (req_id \notin DOMAIN requirement_tests
                    \/ requirement_tests[req_id] = <<>>)
               => /\ Cardinality(RowsFor(out, req_id)) = 1
                  /\ \A k \in RowsFor(out, req_id) :
                        /\ out.rows[k].test_file = NO_COVERAGE
                        /\ out.rows[k].test_case = NO_COVERAGE

\* both artifacts written, one requirement without and one with a test
W4_UncoveredAndCoveredRendered ==
    /\ md_written /\ html_written
    /\ \E req_id \in DOMAIN requirements : req_id \notin DOMAIN requirement_tests
    /\ \E req_id \in DOMAIN requirements : req_id \in DOMAIN requirement_tests

\* C5: a parsed requirement that N >= 1 distinct (file, test) pairs refer to
\* has exactly N rows, one per pair, however often a pair refers to it.
C5_OneRowPerDistinctPair ==
    \A out \in Rendered :
        \A req_id \in DOMAIN requirements :
            PairsOf(req_id) # {} =>
                /\ Cardinality(RowsFor(out, req_id)) = Cardinality(PairsOf(req_id))
                /\ \A pair \in PairsOf(req_id) :
                      Cardinality({k \in RowsFor(out, req_id) :
                          /\ out.rows[k].test_file = replace(pair[1], "|", <<"\\", "|">>)
                          /\ out.rows[k].test_case = pair[2]}) = 1

\* a rendered requirement with two distinct pairs, one of them referring to
\* it more than once
W5_TwoPairsOneRepeated ==
    /\ md_written /\ html_written
    /\ \E req_id \in DOMAIN requirements :
          /\ Cardinality(PairsOf(req_id)) >= 2
          /\ \E key \in DOMAIN references : key[1] = req_id /\ references[key] = 2

\* C6: after parsing, the mapping holds for every identifier of the document
\* one entry, built from the text, the priority and the status of the last
\* block that the identifier starts.
C6_LastOccurrenceWins ==
    pc \notin {"check_dependency", "parse_open", "parse_line"} =>
        /\ DOMAIN requirements = DOMAIN doc_fields
        /\ \A req_id \in DOMAIN doc_fields :
              requirements[req_id] =
                  full_description(doc_fields[req_id].text,
                                   doc_fields[req_id].priority,
                                   doc_fields[req_id].impl_status)

\* parsing is over and an identifier occurred twice: the earlier block gave
\* a priority, the last block gave another text and no priority
W6_EarlierPriorityNotRestated ==
    /\ pc = "check_requirements"
    /\ \E old \in superseded :
          /\ old.id \in DOMAIN requirements
          /\ old.fields.priority # Unknown
          /\ doc_fields[old.id].priority = Unknown
          /\ old.fields.text # doc_fields[old.id].text

StepOrder == <<"dependency", "parse", "scan", "write_md", "write_html">>

C9_RenderersAgree ==
    html_out # NoOutput => html_out = md_out

\* both artifacts written for a table with a file path that holds a pipe
W9_BothRenderedWithPipePath ==
    /\ md_written /\ html_written
    /\ Len(html_out.rows) >= 2
    /\ \E k \in 1..Len(html_out.rows) :
          \E i \in 1..Len(html_out.rows[k].test_file) :
              html_out.rows[k].test_file[i] = "|"

\* d restricted to the keys in keys
Restrict(d, keys) == [k \in DOMAIN d \cap keys |-> d[k]]

\* C10: an identifier referenced from an attributed comment is a key of the
\* scanner output whether or not the document has it; one the document does
\* not have gets no row, and the output of both renderers is what it is
\* without that key.
C10_UnparsedReferenceKeptButNotRendered ==
    /\ \A key \in DOMAIN references : key[1] \in DOMAIN requirement_tests
    /\ \A out \in Rendered :
          \A k \in 1..Len(out.rows) : out.rows[k].req_id \in DOMAIN requirements
    /\ DOMAIN requirement_tests \ DOMAIN requirements # {} =>
          /\ md_out # NoOutput =>
                md_out = generate_trace_matrix(requirements,
                             Restrict(requirement_tests, DOMAIN requirements))
          /\ html_out # NoOutput =>
                html_out = generate_html_trace_matrix(requirements,
                               Restrict(requirement_tests, DOMAIN requirements))

\* both artifacts written and the scanner output has a key the document lacks
W10_UnparsedKeyRendered ==
    /\ md_written /\ html_written
    /\ \E req_id \in DOMAIN requirement_tests : req_id \notin DOMAIN requirements

\* a stored percentage is the exact value of covered / total * 100, and 0
\* for a total of 0
IsPercentageOf(pct, covered, total) ==
    /\ pct.den > 0
    /\ IF total = 0 THEN pct.num = 0
       ELSE pct.num * total = covered * 100 * pct.den

\* C11: every coverage percentage the aggregation computes (overall,
\* Implemented only, each priority bucket of either set) is 0 when its total
\* is 0 and covered / total * 100 otherwise; no pair of arguments, an empty
\* requirement set and an empty Implemented subset included, divides by zero.
C11_PercentagesGuardZeroTotals ==
    \A out \in Rendered :
        /\ out.total_requirements = Cardinality(DOMAIN requirements)
        /\ out.covered_requirements =
              Cardinality(DOMAIN requirements \cap DOMAIN requirement_tests)
        /\ out.covered_implemented =
              Cardinality(out.implemented_reqs \cap DOMAIN requirement_tests)
        /\ IsPercentageOf(out.coverage_percentage, out.covered_requirements,
                          out.total_requirements)
        /\ IsPercentageOf(out.coverage_implemented_percentage,
                          out.covered_implemented,
                          Cardinality(out.implemented_reqs))
        /\ \A summary \in {out.priority_summary_all, out.priority_summary_impl} :
              \A k \in 1..Len(summary) :
                  IsPercentageOf(summary[k].coverage_pct, summary[k].covered,
                                 summary[k].total)

\* both renderers have run on requirements none of which is Implemented and
\* one of two of which is covered: a zero total and a non-zero total
W11_EmptyImplementedSubsetAggregated ==
    /\ md_out # NoOutput /\ html_out # NoOutput
    /\ md_out.total_requirements = 2 /\ md_out.covered_requirements = 1
    /\ html_out.implemented_reqs = {}
    /\ md_out.coverage_implemented_percentage.num = 0
    /\ md_out.coverage_percentage.num = 100

\* the number of positions of a list that hold a pair
Occurrences(list, pair) == Cardinality({k \in 1..Len(list) : list[k] = pair})

\* C12: whatever is scanned, every (file, test) pair that a reference line
\* attributes to an identifier is in the list of that identifier exactly
\* once, however often it is referenced, and stays at the position at which
\* its first occurrence put it: a list only ever grows at its end.
C12_PairOnceAtFirstPosition ==
    [][ /\ \A key \in DOMAIN references' :
              /\ key[1] \in DOMAIN requirement_tests'
              /\ Occurrences(requirement_tests'[key[1]], <<key[2], key[3]>>) = 1
        /\ \A req_id \in DOMAIN requirement_tests :
              /\ req_id \in DOMAIN requirement_tests'
              /\ Len(requirement_tests'[req_id]) >= Len(requirement_tests[req_id])
              /\ SubSeq(requirement_tests'[req_id], 1,
                        Len(requirement_tests[req_id])) = requirement_tests[req_id]
      ]_vars

\* a pair referenced more than once is first in a list that a later pair
\* has extended
W12_RepeatedPairFirstOfTwo ==
    \E key \in DOMAIN references :
        /\ references[key] = 2
        /\ key[1] \in DOMAIN requirement_tests
        /\ Len(requirement_tests[key[1]]) = 2
        /\ requirement_tests[key[1]][1] = <<key[2], key[3]>>

AddedPairs(req_id) ==
    LET old == IF req_id \in DOMAIN requirement_tests
               THEN requirement_tests[req_id] ELSE <<>>
        new == requirement_tests'[req_id]
    IN  {new[k] : k \in (Len(old) + 1)..Len(new)}

\* C14: a reference line is attributed to the test of the latest declaration
\* on or before it in its own file, a declaration on the line itself counted;
\* with no declaration so far in its own file it is dropped, whatever test an
\* earlier file ended in.
C14_AttributedToLatestDeclarationOfFile ==
    [][ (pc = "scan_line" /\ pc' = "scan_line") =>
        \A line \in TestLines :
            ScanLineBody(line) =>
                LET declared == IF method_match(line).ok
                                THEN method_match(line).text ELSE last_declared
                    named == IF req_comment_match(line).ok
                             THEN LET req_ids ==
                                          req_ids_of(req_comment_match(line).text)
                                  IN  {req_ids[k] : k \in 1..Len(req_ids)}
                             ELSE {}
                    test_info == << relative_path(test_directories[dir_index],
                                                  test_file), declared >>
                IN  /\ declared = None => requirement_tests' = requirement_tests
                    /\ declared # None =>
                          \A req_id \in named :
                              /\ req_id \in DOMAIN requirement_tests'
                              /\ Occurrences(requirement_tests'[req_id],
                                             test_info) = 1
                    /\ \A req_id \in DOMAIN requirement_tests' :
                          AddedPairs(req_id) # {} =>
                              /\ req_id \in named
                              /\ AddedPairs(req_id) = {test_info}
      ]_vars

\* a file that declared a test and referenced from it was scanned, and the
\* file being read now has had a reference line and no declaration: nothing
\* is attributed to it
W14_ReferenceDroppedAfterFileWithTest ==
    /\ pc = "scan_line"
    /\ unattributed
    /\ last_declared = None
    /\ DOMAIN references # {}
    /\ \A key \in DOMAIN references :
          key[2] # relative_path(test_directories[dir_index], test_file)

\* the parser state a line may change
ParserFields == <<requirements, current_req_id, current_req_text,
                  current_priority, current_impl_status>>

\* C15: a Priority or Impl Status line changes only its own field of the
\* active requirement and changes nothing while no requirement is active; a
\* requirement line sets both fields to "Unknown", whatever they were; and a
\* stored description changes only when a block of that same identifier is
\* stored, so never by the lines of another requirement.
C15_FieldLinesTouchOnlyActiveRequirement ==
    [][ /\ (pc = "parse_line" /\ pc' = "parse_line") =>
           \A line \in DocLines :
              ParseLineBody(line) =>
                  /\ req_match(line).ok =>
                        /\ current_priority' = Unknown
                        /\ current_impl_status' = Unknown
                  /\ (~req_match(line).ok /\ current_req_id = None) =>
                        UNCHANGED ParserFields
                  /\ (~req_match(line).ok /\ priority_match(line).ok) =>
                        UNCHANGED <<requirements, current_req_id,
                                    current_req_text, current_impl_status>>
                  /\ (~req_match(line).ok /\ impl_match(line).ok) =>
                        UNCHANGED <<requirements, current_req_id,
                                    current_req_text, current_priority>>
                  /\ (~req_match(line).ok /\ current_req_id # None
                         /\ priority_match(line).ok) =>
                        current_priority' = strip(priority_match(line).text)
                  /\ (~req_match(line).ok /\ current_req_id # None
                         /\ impl_match(line).ok) =>
                        current_impl_status' = strip(impl_match(line).text)
        /\ \A req_id \in DOMAIN requirements :
              /\ req_id \in DOMAIN requirements'
              /\ requirements'[req_id] # requirements[req_id] =>
                    /\ req_id = current_req_id
                    /\ requirements'[req_id] =
                          full_description(current_req_text, current_priority,
                                           current_impl_status)
      ]_vars

\* A-1 was stored with a priority of its own, and the requirement line of
\* B-2 that stored it has left both fields of B-2 at "Unknown"
W15_NextRequirementStartsUnknown ==
    /\ pc = "parse_line"
    /\ DOMAIN requirements = { <<"A", "-", "1">> }
    /\ doc_fields[ <<"A", "-", "1">> ].priority = <<"H", "i", "g", "h">>
    /\ requirements[ <<"A", "-", "1">> ] = full_description(<<"x">>, <<"H", "i", "g", "h">>, Unknown)
    /\ current_req_id = <<"B", "-", "2">>
    /\ current_priority = Unknown
    /\ current_impl_status = Unknown

\* C16: a scan root that does not exist and a file that cannot be read add
\* nothing to the scanner output and do not end the scan: the step that
\* meets one moves on to the next root or file and leaves everything else
\* as it was, so that the scan goes on as if the root or file were not
\* there, and every reference collected so far stays in the output.
C16_FailuresAreSkipped ==
    [][ /\ (pc = "scan_dir" /\ dir_index <= Len(test_directories)
               /\ pc' # "scan_file") =>
              /\ pc' = "scan_dir" /\ exit_code' = Running
              /\ dir_index' = dir_index + 1
              /\ UNCHANGED <<requirement_tests, pending_files, test_file,
                             current_test_method, parser_vars, render_vars>>
        /\ (pc = "scan_file" /\ pending_files # <<>> /\ pc' # "scan_line") =>
              /\ pc' = "scan_file" /\ exit_code' = Running
              /\ pending_files' = Tail(pending_files)
              /\ UNCHANGED <<requirement_tests, dir_index, test_file,
                             current_test_method, parser_vars, render_vars>>
        /\ \A key \in DOMAIN references :
              /\ key[1] \in DOMAIN requirement_tests'
              /\ Occurrences(requirement_tests'[key[1]], <<key[2], key[3]>>) = 1
      ]_vars

\* a root or a file was skipped after a reference of the first directory had
\* been collected, and the file read after that has added a reference
W16_ReferencesBeforeAndAfterFailure ==
    /\ pc = "scan_line"
    /\ failed_after_reference
    /\ \E key \in DOMAIN references :
          key[2] = relative_path(test_directories[dir_index], test_file)
    /\ \E key \in DOMAIN references :
          key[2] # relative_path(test_directories[dir_index], test_file)
    /\ \A key \in DOMAIN references :
          Occurrences(requirement_tests[key[1]], <<key[2], key[3]>>) = 1

\* C17: storing then re-extracting is exact: the priority, implementation
\* status and requirement text in the rows of a requirement are the values
\* the parser read from the document for it ("Unknown" where the document
\* gave none), the text with its pipes escaped, whatever the values are.
C17_StoredFieldsReExtractedExactly ==
    \A out \in Rendered :
        \A k \in 1..Len(out.rows) :
            LET fields == doc_fields[out.rows[k].req_id]
            IN  /\ out.rows[k].priority = fields.priority
                /\ out.rows[k].impl_status = fields.impl_status
                /\ out.rows[k].req_text = replace(fields.text, "|", <<"\\", "|">>)

====
